---- MODULE Spec2Model ----
(***************************************************************************)
(* CoolBox: the JointView super-frame layout (coolbox/core/superframe.py)  *)
(* and the Track composition operators (coolbox/core/track.py).            *)
(*                                                                         *)
(* Lengths are Python floats in the source.  They are modelled as exact    *)
(* rationals <<numerator, denominator>> in lowest terms, so that the       *)
(* division center_width / middle_ratio and the products with cm2px (28.5) *)
(* are computed, not assumed.                                              *)
(***************************************************************************)
EXTENDS Integers, Sequences, FiniteSets, TLC

VARIABLES frames,   \* heap of Frame objects: id -> properties (width, height, width_ratios)
          jv,       \* <<>> or <<properties>>: the JointView built by the last construction
          last,     \* the last JointView call: its arguments and what it returned or raised
          tracks,   \* heap of Track objects: id -> [cls, d, l], d and l the ids of the
                    \* dict bound to .properties and of the list bound to .coverages
          dicts,    \* heap of properties dicts
          lists,    \* heap of coverages lists
          born,     \* history: each Track's properties and coverages when it was made
          cframes,  \* heap of the Frames made by +: id -> the ordered track ids
          counts,   \* class -> its own _counts attribute (0: the class has none)
          news,     \* number of Track.__new__ calls so far
          made,     \* history: class -> number of Track.__new__ calls made on that very class
          feature_stack,   \* the global feature stack (the `with feature:` blocks the run is in)
          coverage_stack,  \* the global coverage stack (the `with coverage:` blocks the run is in)
          result    \* the last Track call: its operands and what it returned or raised

jvars == <<frames, jv, last>>
tvars == <<tracks, dicts, lists, born, cframes, counts, news, made, feature_stack, coverage_stack, result>>
vars == <<jvars, tvars>>

-----------------------------------------------------------------------------
(* Bounds of the model *)

\* number of Frame objects the user holds and can pass to JointView
NFrames == 1

\* number of Track objects made (constructed or copied) in one run
MaxTracks == 3

\* number of Frames made by + in one run
MaxFrames == 2

\* number of JointViews built on the same Frame objects in one run
MaxViews == 2

-----------------------------------------------------------------------------
(* Exact rational arithmetic *)

Abs(x) == IF x < 0 THEN -x ELSE x

RECURSIVE GCD(_, _)
GCD(a, b) == IF b = 0 THEN a ELSE GCD(b, a % b)

\* the rational n/d (d # 0) in lowest terms with a positive denominator
R(n, d) ==
    LET g == GCD(Abs(n), Abs(d))
        s == IF d < 0 THEN -1 ELSE 1
    IN  <<(s * n) \div g, (s * d) \div g>>

RAdd(a, b) == R(a[1] * b[2] + b[1] * a[2], a[2] * b[2])
RSub(a, b) == R(a[1] * b[2] - b[1] * a[2], a[2] * b[2])
RMul(a, b) == R(a[1] * b[1], a[2] * b[2])
RDiv(a, b) == R(a[1] * b[2], a[2] * b[1])
Zero == R(0, 1)

-----------------------------------------------------------------------------
(* Values the calls are made with *)

Slots == {"top", "right", "bottom", "left"}

\* orientations = ['top', 'right', 'bottom', 'left']
orientations == <<"top", "right", "bottom", "left">>

\* orientations.index(k)  (1-based here, 0-based in Python)
OrientationIndex(k) == CHOOSE i \in 1..4 : orientations[i] = k

\* Frame objects the user can hold before any JointView exists: their
\* properties 'width', 'height' and 'width_ratios'
FrameShapes ==
    { [width |-> R(40, 1), height |-> R(3, 1),
       width_ratios |-> <<R(1, 4), R(1, 2), R(1, 4)>>],
      [width |-> R(30, 1), height |-> R(5, 1),
       width_ratios |-> <<R(1, 10), R(4, 5), R(1, 10)>>] }

\* the Frame that `Frame() + track` yields for a bare track passed as a peripheral
WrappedFrame ==
    [width |-> R(40, 1), height |-> R(2, 1),
     width_ratios |-> <<R(1, 5), R(3, 5), R(1, 5)>>]

\* a center argument: is it a Track instance, does it have a plot_joint attribute
Centers == [isTrack : BOOLEAN, hasPlotJoint : BOOLEAN]

\* a peripheral argument: None, one of the user's Frame objects, a bare Track,
\* or an object of another type (a str, say)
SlotArgs ==
    {[kind |-> "None", id |-> 0], [kind |-> "Track", id |-> 0], [kind |-> "other", id |-> 0]}
    \cup {[kind |-> "Frame", id |-> i] : i \in 1..NFrames}

\* **kwargs of JointView(...): keyword overrides of the default properties
KwargsOptions ==
    { <<>>,
      [center_width |-> R(10, 1)],
      [trbl |-> <<"2", "1", "1", "1">>],
      [sub_frames |-> [top |-> 1]] }

\* genome ranges given to plot
Ranges == {"chr1:0-1000", "chr9:4000000-6000000"}
None == "None"

-----------------------------------------------------------------------------
(* JointView.__init__ and its helpers *)

\* the id of the Frame made by wrapping the bare track passed for slot k
WrapId(k) == NFrames + OrientationIndex(k)

\* dict.update: the keys of kw replace or extend those of d
Update(d, kw) ==
    [k \in (DOMAIN d) \cup (DOMAIN kw) |-> IF k \in DOMAIN kw THEN kw[k] ELSE d[k]]

\* sub_frames = {k: v for k, v in sub_frames.items() if v is not None}
NotNone(args) == {k \in Slots : args[k].kind # "None"}

\* the keys of a sub_frames dict in its iteration order (top, right, bottom, left)
Keys(sub_frames) == SelectSeq(orientations, LAMBDA k : k \in DOMAIN sub_frames)

\* __check_sub_frames without the test of the center
check_sub_frames_no_center_test(center, args) ==
    LET given == NotNone(args)
    IN  IF ~(Cardinality(given) >= 2)
        THEN [outcome |-> "AssertionError", sub_frames |-> <<>>]
        ELSE IF \E k \in given : args[k].kind \notin {"Frame", "Track"}
        THEN [outcome |-> "TypeError", sub_frames |-> <<>>]
        ELSE [outcome |-> "ok",
              sub_frames |-> [k \in given |->
                                 IF args[k].kind = "Frame" THEN args[k].id ELSE WrapId(k)]]

\* JointView.__check_sub_frames: the exception raised, or "ok" and the
\* sub_frames dict with every bare track replaced by a new Frame
check_sub_frames(center, args) ==
    LET given == NotNone(args)
    IN  IF ~(Cardinality(given) >= 2)
        THEN [outcome |-> "AssertionError", sub_frames |-> <<>>]
        ELSE IF (~center.isTrack) /\ (~center.hasPlotJoint)
        THEN [outcome |-> "TypeError", sub_frames |-> <<>>]
        ELSE IF \E k \in given : args[k].kind \notin {"Frame", "Track"}
        THEN [outcome |-> "TypeError", sub_frames |-> <<>>]
        ELSE [outcome |-> "ok",
              sub_frames |-> [k \in given |->
                                 IF args[k].kind = "Frame" THEN args[k].id ELSE WrapId(k)]]

\* the default properties of JointView.__init__
DefaultProperties(sub_frames, center) ==
    [sub_frames   |-> sub_frames,
     center_track |-> center,
     center_width |-> R(20, 1),
     trbl         |-> <<"1", "2", "1", "2">>,
     space        |-> R(1, 1),
     cm2px        |-> R(57, 2),
     padding_left |-> R(1, 1)]

\* JointView.__adjust_sub_frames_width: the heap after every frame of
\* properties['sub_frames'] got width = center_width / width_ratios[1]
adjust_sub_frames_width(props, heap) ==
    LET used == {props.sub_frames[k] : k \in DOMAIN props.sub_frames}
    IN  [f \in DOMAIN heap |->
            IF f \in used
            THEN [heap[f] EXCEPT !.width = RDiv(props.center_width, heap[f].width_ratios[2])]
            ELSE heap[f]]

\* the heap with the frames that wrap bare tracks added
WithWrapped(heap, args, sub_frames) ==
    LET wrapped == {WrapId(k) : k \in {s \in DOMAIN sub_frames : args[s].kind = "Track"}}
    IN  [f \in (1..NFrames) \cup wrapped |-> IF f \in wrapped THEN WrappedFrame ELSE heap[f]]

NoResult == <<>>

\* JointView(center, top=, right=, bottom=, left=, **kwargs)
Construct(center, args, kw) ==
    LET chk   == check_sub_frames(center, args)
        props == Update(DefaultProperties(chk.sub_frames, center), kw)
    IN  /\ last' = [op |-> "construct", outcome |-> chk.outcome,
                    supplied |-> NotNone(args), center |-> center,
                    gr1 |-> None, gr2 |-> None, res |-> NoResult]
        /\ IF chk.outcome = "ok"
           THEN /\ jv' = <<props>>
                /\ frames' = adjust_sub_frames_width(props, WithWrapped(frames, args, chk.sub_frames))
           ELSE /\ jv' = <<>>
                /\ frames' = [f \in 1..NFrames |-> frames[f]]
        /\ UNCHANGED tvars

-----------------------------------------------------------------------------
(* JointView.plot and its helpers *)

\* frame2grange reading the trbl code one position too far
frame2grange_shifted(trbl, genome_range1, genome_range2) ==
    [k \in Slots |->
        IF trbl[(OrientationIndex(k) % 4) + 1] = "1" THEN genome_range1 ELSE genome_range2]

\* frame2grange of JointView.plot: the range each orientation is plotted with
frame2grange(trbl, genome_range1, genome_range2) ==
    [k \in Slots |-> IF trbl[OrientationIndex(k)] = "1" THEN genome_range1 ELSE genome_range2]

\* SuperFrame.plot_frames: one rendered svg per entry of properties['sub_frames'],
\* in the dict's order, each plotted with the range of its key
plot_frames(props, f2g) ==
    LET keys == Keys(props.sub_frames)
    IN  [i \in 1..Len(keys) |->
            [slot |-> keys[i], frame |-> props.sub_frames[keys[i]], range |-> f2g[keys[i]]]]

\* __get_center_offsets with the bottom frame shifting x even under a top frame
get_center_offsets_bottom_always(props, heap) ==
    LET sub_frames == props.sub_frames
        space == props.space
        o0 == <<props.padding_left, Zero>>
        o1 == IF "top" \in DOMAIN sub_frames
              THEN LET f == heap[sub_frames["top"]]
                   IN  <<RAdd(o0[1], RMul(f.width, f.width_ratios[1])),
                         RAdd(o0[2], RAdd(space, f.height))>>
              ELSE o0
        o2 == IF "bottom" \in DOMAIN sub_frames
              THEN LET f == heap[sub_frames["bottom"]]
                   IN  <<RAdd(o1[1], RMul(f.width, f.width_ratios[1])), o1[2]>>
              ELSE o1
        o3 == IF "left" \in DOMAIN sub_frames
              THEN <<RAdd(o2[1], RAdd(space, heap[sub_frames["left"]].height)), o2[2]>>
              ELSE o2
    IN  o3

\* JointView.__get_center_offsets: [x, y]
get_center_offsets(props, heap) ==
    LET sub_frames == props.sub_frames
        space == props.space
        o0 == <<props.padding_left, Zero>>
        o1 == IF "top" \in DOMAIN sub_frames
              THEN LET f == heap[sub_frames["top"]]
                   IN  <<RAdd(o0[1], RMul(f.width, f.width_ratios[1])),
                         RAdd(o0[2], RAdd(space, f.height))>>
              ELSE o0
        o2 == IF "bottom" \in DOMAIN sub_frames /\ "top" \notin DOMAIN sub_frames
              THEN LET f == heap[sub_frames["bottom"]]
                   IN  <<RAdd(o1[1], RMul(f.width, f.width_ratios[1])), o1[2]>>
              ELSE o1
        o3 == IF "left" \in DOMAIN sub_frames
              THEN <<RAdd(o2[1], RAdd(space, heap[sub_frames["left"]].height)), o2[2]>>
              ELSE o2
    IN  o3

\* __get_figsize with left and right added before top and bottom set the width
get_figsize_sides_first(props, heap) ==
    LET sub_frames == props.sub_frames
        space == props.space
        s0 == <<props.center_width, props.center_width>>
        s1 == IF "left" \in DOMAIN sub_frames
              THEN <<RAdd(s0[1], RAdd(heap[sub_frames["left"]].height, space)), s0[2]>>
              ELSE s0
        s2 == IF "right" \in DOMAIN sub_frames
              THEN <<RAdd(s1[1], RAdd(heap[sub_frames["right"]].height, space)), s1[2]>>
              ELSE s1
        s3 == IF "top" \in DOMAIN sub_frames
              THEN LET f == heap[sub_frames["top"]]
                   IN  <<f.width, RAdd(s2[2], RAdd(f.height, space))>>
              ELSE s2
        s4 == IF "bottom" \in DOMAIN sub_frames
              THEN LET f == heap[sub_frames["bottom"]]
                   IN  <<f.width, RAdd(s3[2], RAdd(f.height, space))>>
              ELSE s3
    IN  s4

\* __get_figsize without the branch of the right frame
get_figsize_no_right(props, heap) ==
    LET sub_frames == props.sub_frames
        space == props.space
        s0 == <<props.center_width, props.center_width>>
        s1 == IF "top" \in DOMAIN sub_frames
              THEN LET f == heap[sub_frames["top"]]
                   IN  <<f.width, RAdd(s0[2], RAdd(f.height, space))>>
              ELSE s0
        s2 == IF "bottom" \in DOMAIN sub_frames
              THEN LET f == heap[sub_frames["bottom"]]
                   IN  <<f.width, RAdd(s1[2], RAdd(f.height, space))>>
              ELSE s1
        s3 == IF "left" \in DOMAIN sub_frames
              THEN <<RAdd(s2[1], RAdd(heap[sub_frames["left"]].height, space)), s2[2]>>
              ELSE s2
    IN  s3

\* JointView.__get_figsize: [width, height]
get_figsize(props, heap) ==
    LET sub_frames == props.sub_frames
        space == props.space
        s0 == <<props.center_width, props.center_width>>
        s1 == IF "top" \in DOMAIN sub_frames
              THEN LET f == heap[sub_frames["top"]]
                   IN  <<f.width, RAdd(s0[2], RAdd(f.height, space))>>
              ELSE s0
        s2 == IF "bottom" \in DOMAIN sub_frames
              THEN LET f == heap[sub_frames["bottom"]]
                   IN  <<f.width, RAdd(s1[2], RAdd(f.height, space))>>
              ELSE s1
        s3 == IF "left" \in DOMAIN sub_frames
              THEN <<RAdd(s2[1], RAdd(heap[sub_frames["left"]].height, space)), s2[2]>>
              ELSE s2
        s4 == IF "right" \in DOMAIN sub_frames
              THEN <<RAdd(s3[1], RAdd(heap[sub_frames["right"]].height, space)), s3[2]>>
              ELSE s3
    IN  s4

\* __get_figsize storing the width it computed under 'center_width'
StoreFigsize_center_width(props, size) ==
    Update(props, [center_width |-> size[1], height |-> size[2]])

\* the properties after __get_figsize stored the size it computed
StoreFigsize(props, size) == Update(props, [width |-> size[1], height |-> size[2]])

\* svg.move(x, y) and svg.rotate(angle), kept as the list of calls made on the svg
Move(x, y) == [call |-> "move", x |-> x, y |-> y]
Rotate(angle) == [call |-> "rotate", angle |-> angle]

\* __transform_sub_svgs moving the right panel without rotating it
transform_sub_svgs_no_rotate(props, heap, center_offsets, k) ==
    IF k = "top"
    THEN <<Move(RMul(props.padding_left, props.cm2px), Zero)>>
    ELSE IF k = "right"
    THEN LET f == heap[props.sub_frames["right"]]
             wr == f.width_ratios
             x == RAdd(RAdd(RAdd(center_offsets[1], props.center_width), f.height), props.space)
             y == RSub(center_offsets[2], RMul(f.width, wr[1]))
         IN  <<Move(RMul(x, props.cm2px), RMul(y, props.cm2px))>>
    ELSE <<>>

\* __transform_sub_svgs placing the left panel as well
transform_sub_svgs_left_moved(props, heap, center_offsets, k) ==
    IF k = "top"
    THEN <<Move(RMul(props.padding_left, props.cm2px), Zero)>>
    ELSE IF k = "right"
    THEN LET f == heap[props.sub_frames["right"]]
             wr == f.width_ratios
             x == RAdd(RAdd(RAdd(center_offsets[1], props.center_width), f.height), props.space)
             y == RSub(center_offsets[2], RMul(f.width, wr[1]))
         IN  <<Rotate(90), Move(RMul(x, props.cm2px), RMul(y, props.cm2px))>>
    ELSE IF k = "left"
    THEN <<Rotate(90), Move(RMul(props.padding_left, props.cm2px),
                            RMul(center_offsets[2], props.cm2px))>>
    ELSE <<>>

\* JointView.__transform_sub_svgs: the calls made on the svg of slot k
transform_sub_svgs(props, heap, center_offsets, k) ==
    IF k = "top"
    THEN <<Move(RMul(props.padding_left, props.cm2px), Zero)>>
    ELSE IF k = "right"
    THEN LET f == heap[props.sub_frames["right"]]
             wr == f.width_ratios
             x == RAdd(RAdd(RAdd(center_offsets[1], props.center_width), f.height), props.space)
             y == RSub(center_offsets[2], RMul(f.width, wr[1]))
         IN  <<Rotate(90), Move(RMul(x, props.cm2px), RMul(y, props.cm2px))>>
    ELSE <<>>

\* f"{x}px"
Px(x) == <<x, "px">>

\* plot without the default of the second range
SecondRange_no_default(genome_range1, genome_range2) == genome_range2

\* if genome_range2 is None: genome_range2 = genome_range1
SecondRange(genome_range1, genome_range2) ==
    IF genome_range2 = None THEN genome_range1 ELSE genome_range2

\* the pixel sizes without the factor cm2px
FigureSize_no_cm2px(figsize, cm2px) == <<Px(figsize[1]), Px(figsize[2])>>

\* the width and height given to sc.Figure: f"{figsize[0]*self.cm2px}px", f"{figsize[1]*self.cm2px}px"
FigureSize(figsize, cm2px) == <<Px(RMul(figsize[1], cm2px)), Px(RMul(figsize[2], cm2px))>>

\* what JointView.plot computes and returns when no rendering raises
plot(props, heap, genome_range1, genome_range2) ==
    LET gr2 == SecondRange(genome_range1, genome_range2)
        f2g == frame2grange(props.trbl, genome_range1, gr2)
        frame_svgs == plot_frames(props, f2g)
        center_offsets == get_center_offsets(props, heap)
        center_svg == [range1 |-> genome_range1, range2 |-> gr2,
                       calls |-> <<Move(RMul(center_offsets[1], props.cm2px),
                                        RMul(center_offsets[2], props.cm2px))>>]
        figsize == get_figsize(props, heap)
    IN  [frame2grange |-> f2g,
         frame_svgs |-> frame_svgs,
         center_offsets |-> center_offsets,
         figsize |-> figsize,
         fig |-> [width |-> FigureSize(figsize, props.cm2px)[1],
                  height |-> FigureSize(figsize, props.cm2px)[2],
                  panels |-> <<[name |-> "center", svg |-> center_svg]>> \o
                             [i \in 1..Len(frame_svgs) |->
                                 [name |-> frame_svgs[i].slot,
                                  svg |-> [range1 |-> frame_svgs[i].range, range2 |-> None,
                                           calls |-> transform_sub_svgs(props, heap, center_offsets,
                                                                        frame_svgs[i].slot)]]]]]

\* jv.plot(genome_range1, genome_range2): plot_center raises AttributeError when the
\* center has no plot_joint, after the peripheral frames were rendered
Plot(genome_range1, genome_range2) ==
    /\ jv # <<>>
    /\ LET props == jv[1]
           res == plot(props, frames, genome_range1, genome_range2)
       IN  IF props.center_track.hasPlotJoint
           THEN /\ jv' = <<StoreFigsize(props, res.figsize)>>
                /\ last' = [op |-> "plot", outcome |-> "ok",
                            supplied |-> DOMAIN props.sub_frames, center |-> props.center_track,
                            gr1 |-> genome_range1, gr2 |-> genome_range2, res |-> res]
           ELSE /\ jv' = jv
                /\ last' = [op |-> "plot", outcome |-> "AttributeError",
                            supplied |-> DOMAIN props.sub_frames, center |-> props.center_track,
                            gr1 |-> genome_range1, gr2 |-> genome_range2, res |-> NoResult]
    /\ UNCHANGED <<frames, tvars>>

-----------------------------------------------------------------------------
(* JointView.plot with the renderings that can raise: f.plot, fig.savefig and  *)
(* sc.SVG in plot_frames, plot_joint and savefig in plot_center.  Which        *)
(* rendering raises, and what, is an input of the call.                        *)

Exceptions == {"ValueError", "OSError"}

\* no rendering raises, or the rendering of one panel raises exc
NoFailure == [at |-> "none", exc |-> "none"]
Failures == {NoFailure} \cup [at : Slots \cup {"center"}, exc : Exceptions]

\* plot_frames going on with the next frame when a rendering raises
RECURSIVE plot_frames_from_skip_failed(_, _, _)
plot_frames_from_skip_failed(svgs, i, failure) ==
    IF i > Len(svgs) THEN [res |-> <<>>, log |-> <<>>, raised |-> "none"]
    ELSE LET rest == plot_frames_from_skip_failed(svgs, i + 1, failure)
         IN  [res |-> (IF svgs[i].slot = failure.at THEN <<>> ELSE <<svgs[i]>>) \o rest.res,
              log |-> <<svgs[i].slot>> \o rest.log,
              raised |-> rest.raised]

\* the loop of SuperFrame.plot_frames from its i-th frame on: the svgs it
\* collects, the slots it rendered or tried to, and the exception that ended it
RECURSIVE plot_frames_from(_, _, _)
plot_frames_from(svgs, i, failure) ==
    IF i > Len(svgs) THEN [res |-> <<>>, log |-> <<>>, raised |-> "none"]
    ELSE IF svgs[i].slot = failure.at
    THEN [res |-> <<>>, log |-> <<svgs[i].slot>>, raised |-> failure.exc]
    ELSE LET rest == plot_frames_from(svgs, i + 1, failure)
         IN  [res |-> <<svgs[i]>> \o rest.res,
              log |-> <<svgs[i].slot>> \o rest.log,
              raised |-> rest.raised]

\* jv.plot(genome_range1, genome_range2) under the given failure: plot_frames,
\* then plot_center, then the composition; an exception leaves plot at once
PlotRendering(genome_range1, genome_range2, failure) ==
    /\ jv # <<>>
    /\ LET props == jv[1]
           gr2 == SecondRange(genome_range1, genome_range2)
           f2g == frame2grange(props.trbl, genome_range1, gr2)
           r == plot_frames_from(plot_frames(props, f2g), 1, failure)
           call == [op |-> "plot", supplied |-> DOMAIN props.sub_frames,
                    center |-> props.center_track, gr1 |-> genome_range1,
                    gr2 |-> genome_range2, failure |-> failure]
           raise(exc, log) == Update(call, [outcome |-> exc, res |-> NoResult, log |-> log])
       IN  IF r.raised # "none"
           THEN jv' = jv /\ last' = raise(r.raised, r.log)
           ELSE IF ~props.center_track.hasPlotJoint
           THEN jv' = jv /\ last' = raise("AttributeError", r.log \o <<"center">>)
           ELSE IF failure.at = "center"
           THEN jv' = jv /\ last' = raise(failure.exc, r.log \o <<"center">>)
           ELSE LET res == plot(props, frames, genome_range1, genome_range2)
                IN  /\ jv' = <<StoreFigsize(props, res.figsize)>>
                    /\ last' = Update(call, [outcome |-> "ok", res |-> res,
                                             log |-> r.log \o <<"center">>])
    /\ UNCHANGED <<frames, tvars>>

-----------------------------------------------------------------------------
(* Several JointViews built from Frame objects the caller keeps: jv holds them *)
(* in the order they were built, and their sub_frames refer to the same heap.  *)

\* the ids of the Frame objects the caller holds
SharedFrames == {1, 2}

\* JointView(center, top=frames[top], right=frames[right], **kw), one more view
ConstructShared(top, right, kw) ==
    /\ Len(jv) < MaxViews
    /\ LET center == [isTrack |-> TRUE, hasPlotJoint |-> TRUE]
           args == [k \in Slots |->
                       IF k = "top" THEN [kind |-> "Frame", id |-> top]
                       ELSE IF k = "right" THEN [kind |-> "Frame", id |-> right]
                       ELSE [kind |-> "None", id |-> 0]]
           chk == check_sub_frames(center, args)
           props == Update(DefaultProperties(chk.sub_frames, center), kw)
       IN  /\ jv' = Append(jv, props)
           /\ frames' = adjust_sub_frames_width(props, frames)
           /\ last' = [op |-> "construct", outcome |-> chk.outcome,
                       supplied |-> NotNone(args), center |-> center,
                       gr1 |-> None, gr2 |-> None, res |-> NoResult]
    /\ UNCHANGED tvars

\* jv[i].plot(genome_range1, genome_range2)
PlotShared(i, genome_range1, genome_range2) ==
    /\ LET props == jv[i]
           res == plot(props, frames, genome_range1, genome_range2)
       IN  /\ jv' = [jv EXCEPT ![i] = StoreFigsize(props, res.figsize)]
           /\ last' = [op |-> "plot", outcome |-> "ok",
                       supplied |-> DOMAIN props.sub_frames, center |-> props.center_track,
                       gr1 |-> genome_range1, gr2 |-> genome_range2, res |-> res]
    /\ UNCHANGED <<frames, tvars>>

-----------------------------------------------------------------------------
(* The division of __adjust_sub_frames_width as CPython computes it: in IEEE    *)
(* 754 binary64, rounding to nearest, ties to even.  A natural number is the    *)
(* sequence of its 8 digits in base 2^15, lowest first; a double is [m, e] with *)
(* 2^52 <= m < 2^53, of value m * 2^e.                                          *)

\* the number of bits of a digit
LimbBits == 15
LimbBase == 2^LimbBits

\* the number of bits of the significand of a binary64
Precision == 53

\* the natural number n < 2^30 in digits
BZero == <<0, 0, 0, 0, 0, 0, 0, 0>>
Big(n) == <<n % LimbBase, n \div LimbBase>> \o SubSeq(BZero, 3, Len(BZero))

RECURSIVE AddFrom(_, _, _, _)
AddFrom(a, b, i, carry) ==
    IF i > Len(a) THEN <<>>
    ELSE LET sum == a[i] + b[i] + carry
         IN  <<sum % LimbBase>> \o AddFrom(a, b, i + 1, sum \div LimbBase)

RECURSIVE SubFrom(_, _, _, _)
SubFrom(a, b, i, borrow) ==
    IF i > Len(a) THEN <<>>
    ELSE LET diff == a[i] - b[i] - borrow
         IN  IF diff < 0 THEN <<diff + LimbBase>> \o SubFrom(a, b, i + 1, 1)
             ELSE <<diff>> \o SubFrom(a, b, i + 1, 0)

BAdd(a, b) == AddFrom(a, b, 1, 0)
\* a - b for a >= b
BSub(a, b) == SubFrom(a, b, 1, 0)
BLess(a, b) ==
    \E i \in 1..Len(a) : a[i] < b[i] /\ \A j \in (i + 1)..Len(a) : a[j] = b[j]
BDouble(a) == BAdd(a, a)
RECURSIVE HalfFrom(_, _)
HalfFrom(a, i) ==
    IF i > Len(a) THEN <<>>
    ELSE LET high == IF i < Len(a) /\ a[i + 1] % 2 = 1 THEN LimbBase \div 2 ELSE 0
         IN  <<(a[i] \div 2) + high>> \o HalfFrom(a, i + 1)
BHalf(a) == HalfFrom(a, 1)
BOdd(a) == a[1] % 2 = 1
\* |a - b|
BDist(a, b) == IF BLess(a, b) THEN BSub(b, a) ELSE BSub(a, b)

\* a * LimbBase^k and a \div LimbBase^k
ShiftUp(a, k) == SubSeq(BZero, 1, k) \o SubSeq(a, 1, Len(a) - k)
ShiftDown(a, k) == SubSeq(a, k + 1, Len(a)) \o SubSeq(BZero, 1, k)

RECURSIVE Doubled(_, _)
Doubled(a, n) == IF n = 0 THEN a ELSE BDouble(Doubled(a, n - 1))

RECURSIVE Halved(_, _)
Halved(a, n) == IF n = 0 THEN a ELSE BHalf(Halved(a, n - 1))

\* a * 2^n and a \div 2^n
BShl(a, n) == Doubled(ShiftUp(a, n \div LimbBits), n % LimbBits)
BShr(a, n) == Halved(ShiftDown(a, n \div LimbBits), n % LimbBits)

\* a * x for a digit x
RECURSIVE MulFrom(_, _, _, _)
MulFrom(a, x, i, carry) ==
    IF i > Len(a) THEN <<>>
    ELSE LET prod == a[i] * x + carry
         IN  <<prod % LimbBase>> \o MulFrom(a, x, i + 1, prod \div LimbBase)

RECURSIVE MulLimbs(_, _, _)
MulLimbs(a, b, j) ==
    IF j > Len(b) THEN Big(0)
    ELSE BAdd(ShiftUp(MulFrom(a, b[j], 1, 0), j - 1), MulLimbs(a, b, j + 1))

BMul(a, b) == MulLimbs(a, b, 1)

\* 2^(Precision - 1) and 2^Precision
MinSignificand == BShl(Big(1), Precision - 1)
SignificandLimit == BShl(Big(1), Precision)

\* the double of value q * 2^e (+ a nonzero rest below q when sticky), for
\* 2^53 <= q < 2^54: the last bit of q is rounded away, ties to even
Round(q, sticky, e) ==
    LET m == BHalf(q)
        up == BOdd(q) /\ (sticky \/ BOdd(m))
        m1 == IF up THEN BAdd(m, Big(1)) ELSE m
    IN  IF m1 = SignificandLimit THEN [m |-> MinSignificand, e |-> e + 2]
        ELSE [m |-> m1, e |-> e + 1]

\* float(n) for an int n >= 1
RECURSIVE Normal(_, _)
Normal(m, e) == IF BLess(m, MinSignificand) THEN Normal(BDouble(m), e - 1) ELSE [m |-> m, e |-> e]
FromInt(n) == Normal(Big(n), 0)

\* long division: k more bits of the quotient of s.r by d (s.r < d) appended
\* to s.q, and the remainder
RECURSIVE DivSteps(_, _, _)
DivSteps(s, d, k) ==
    IF k = 0 THEN s
    ELSE LET r2 == BDouble(s.r)
             q2 == BDouble(s.q)
         IN  IF BLess(r2, d) THEN DivSteps([q |-> q2, r |-> r2], d, k - 1)
             ELSE DivSteps([q |-> BAdd(q2, Big(1)), r |-> BSub(r2, d)], d, k - 1)

\* a / b in binary64
FDiv(a, b) ==
    LET low == BLess(a.m, b.m)
        n == IF low THEN BDouble(a.m) ELSE a.m
        e == IF low THEN a.e - 1 ELSE a.e
        qr == DivSteps([q |-> Big(1), r |-> BSub(n, b.m)], b.m, Precision)
    IN  Round(qr.q, qr.r # Big(0), e - b.e - Precision)

\* p without its k lowest bits, and whether one of these was set
DropBits(p, k) ==
    LET q == BShr(p, k)
    IN  [q |-> q, sticky |-> BShl(q, k) # p]

\* a * b in binary64
FMul(a, b) ==
    LET p == BMul(a.m, b.m)
        big == ~BLess(p, BShl(Big(1), 2 * Precision - 1))
        k == IF big THEN Precision - 1 ELSE Precision - 2
        d == DropBits(p, k)
    IN  Round(d.q, d.sticky, a.e + b.e + k)

\* the double a decimal literal n/d is read as: the double nearest to n/d
Decimal(n, d) == FDiv(FromInt(n), FromInt(d))

\* the Frames a caller passes as top and right, with their width_ratios
FloatFrames ==
    { [width |-> FromInt(40), width_ratios |-> <<Decimal(r[1], 100), Decimal(r[2], 100),
                                                 Decimal(r[3], 100)>>] :
        r \in { <<5, 90, 5>>, <<1, 93, 6>>, <<25, 50, 25>>, <<20, 60, 20>>,
                <<10, 80, 10>>, <<35, 30, 35>>, <<5, 89, 6>>, <<15, 70, 15>> } }

\* center_width given as a keyword (an int), or not given
CenterWidthKwargs == {<<>>} \cup {[center_width |-> n] : n \in {10, 15, 25, 30}}

\* __adjust_sub_frames_width dividing the default center_width
adjust_sub_frames_width_float_default(props, heap) ==
    LET used == {props.sub_frames[k] : k \in DOMAIN props.sub_frames}
    IN  [f \in DOMAIN heap |->
            IF f \in used
            THEN [heap[f] EXCEPT !.width = FDiv(FromInt(20), heap[f].width_ratios[2])]
            ELSE heap[f]]

\* JointView.__adjust_sub_frames_width in binary64:
\* new_width = self.properties['center_width'] / width_ratios[1]
adjust_sub_frames_width_float(props, heap) ==
    LET used == {props.sub_frames[k] : k \in DOMAIN props.sub_frames}
    IN  [f \in DOMAIN heap |->
            IF f \in used
            THEN [heap[f] EXCEPT
                    !.width = FDiv(FromInt(props.center_width), heap[f].width_ratios[2])]
            ELSE heap[f]]

\* JointView(center, top=frames[1], right=frames[2], **kw), center_width an int
ConstructFloat(kw) ==
    /\ jv = <<>>
    /\ LET props == Update([sub_frames |-> [top |-> 1, right |-> 2], center_width |-> 20], kw)
       IN  /\ jv' = <<props>>
           /\ frames' = adjust_sub_frames_width_float(props, frames)
    /\ last' = [op |-> "construct", outcome |-> "ok", supplied |-> {"top", "right"},
                center |-> [isTrack |-> TRUE, hasPlotJoint |-> TRUE],
                gr1 |-> None, gr2 |-> None, res |-> NoResult]
    /\ UNCHANGED tvars

-----------------------------------------------------------------------------
(* Track: classes, Python values, construction *)

\* Python values of a properties dict, tagged with their type
PyStr(x) == <<"str", x>>
PyInt(x) == <<"int", x>>
PyFloat(x) == <<"float", x>>
PyBool(x) == <<"bool", x>>

\* the track classes constructed here, and the class each derives from
Classes == {"XAxis", "BigWig", "ABCompartment"}

\* every track class of track.py that can be constructed
TrackTypes ==
    {"Spacer", "HLine", "XAxis", "BED", "BigWig", "ABCompartment", "BedGraph", "BEDPE",
     "Pairs", "TADs", "Cool", "DotHiC", "HicCompare", "Virtual4C", "Ideogram", "GTF", "BAM",
     "HiCDiff"}

AllClasses == TrackTypes \cup {"_Arcs", "Track"}
Parent(cls) ==
    IF cls = "ABCompartment" THEN "BigWig"
    ELSE IF cls \in {"BEDPE", "Pairs"} THEN "_Arcs"
    ELSE "Track"

\* the classes attribute lookup on cls goes through, nearest first
RECURSIVE MRO(_)
MRO(cls) == IF cls = "Track" THEN <<"Track">> ELSE <<cls>> \o MRO(Parent(cls))

\* Track.DEFAULT_HEIGHT and XAxis.DEFAULT_HEIGHT, XAxis.DEFAULT_FONTSIZE
DEFAULT_HEIGHT == 3
XAxis_DEFAULT_HEIGHT == 2
XAxis_DEFAULT_FONTSIZE == 15

\* coverages that can be added to a track, and the CoverageStacks
Coverages == {"vlines", "hlines"}
CoverageStacks == {<<"hlines", "vlines">>}

\* features that can be on the feature stack: key and value
Features ==
    { [key |-> "color", value |-> PyStr("red")],
      [key |-> "show_data_range", value |-> PyBool(FALSE)] }

\* **kwargs of a track constructor
TrackKwargs ==
    { <<>>,
      [name |-> PyStr("a")],
      [name |-> PyInt(5)] }

\* Track.__new__: the _counts attributes after cls.__new__ ran
Track__new__(cls, cnt) ==
    LET mro == MRO(cls)
        has == {i \in 1..Len(mro) : cnt[mro[i]] > 0}
    IN  IF has # {}
        THEN LET i == CHOOSE j \in has : \A k \in has : j <= k
             IN  [cnt EXCEPT ![cls] = cnt[mro[i]] + 1]
        ELSE [cnt EXCEPT ![cls] = 1]

\* Track.__bool2str: True -> 'yes', False -> 'no'
bool2str(props) ==
    [k \in DOMAIN props |->
        IF props[k][1] = "bool"
        THEN (IF props[k][2] THEN PyStr("yes") ELSE PyStr("no"))
        ELSE props[k]]

\* XAxis.__init__: the properties_dict given to Track.__init__
XAxis__init__(kwargs) ==
    Update([height   |-> PyInt(XAxis_DEFAULT_HEIGHT),
            fontsize |-> PyInt(XAxis_DEFAULT_FONTSIZE),
            where    |-> PyStr("bottom")], kwargs)

\* BigWig.__init__: the properties_dict given to Track.__init__
BigWig__init__(file_, kwargs) ==
    LET d == Update([file             |-> PyStr(file_),
                     height           |-> PyInt(DEFAULT_HEIGHT),
                     color            |-> PyStr("#dfccde"),
                     alpha            |-> PyFloat("1.0"),
                     number_of_bins   |-> PyInt(700),
                     style            |-> PyStr("fill"),
                     show_data_range  |-> PyBool(TRUE),
                     data_range_style |-> PyStr("y-axis"),
                     title            |-> PyStr(""),
                     max_value        |-> PyStr("auto"),
                     min_value        |-> PyStr("auto")], kwargs)
    IN  Update(d, [type |-> d["style"]])

\* ABCompartment.__init__: the properties_dict given to Track.__init__
ABCompartment__init__(file_, kwargs) ==
    BigWig__init__(file_, Update([positive_color |-> PyStr("#ff9c9c"),
                                  negative_color |-> PyStr("#66ccff")], kwargs))

\* Spacer.__init__: args are the positional arguments
Spacer__init__(args, kwargs) ==
    Update(IF args # <<>> THEN [height |-> args[1]] ELSE [height |-> PyInt(1)], kwargs)

\* HLine.__init__
HLine__init__(kwargs) ==
    Update([height     |-> PyFloat("0.05"),
            line_width |-> PyFloat("1.0"),
            line_style |-> PyStr("--"),
            color      |-> PyStr("#000000"),
            alpha      |-> PyFloat("0.75")], kwargs)

\* BED.__init__: labels becomes 'auto', 'on' (labels is True) or 'off'
BED__init__(file_, kwargs) ==
    LET d == Update([file           |-> PyStr(file_),
                     height         |-> PyInt(DEFAULT_HEIGHT),
                     color          |-> PyStr("bed_rgb"),
                     border_color   |-> PyStr("black"),
                     fontsize       |-> PyInt(12),
                     title          |-> PyStr(""),
                     labels         |-> PyStr("auto"),
                     style          |-> PyStr("flybase"),
                     display        |-> PyStr("stacked"),
                     global_max_row |-> PyBool(FALSE)], kwargs)
        labels == d["labels"]
    IN  Update(d, [labels |-> IF labels = PyStr("auto") THEN PyStr("auto")
                              ELSE IF labels = PyBool(TRUE) THEN PyStr("on")
                              ELSE PyStr("off")])

\* BedGraph.__init__
BedGraph__init__(file_, kwargs) ==
    LET d == Update([file             |-> PyStr(file_),
                     height           |-> PyInt(DEFAULT_HEIGHT),
                     color            |-> PyStr("#a6cee3"),
                     style            |-> PyStr("fill"),
                     show_data_range  |-> PyBool(TRUE),
                     data_range_style |-> PyStr("y-axis"),
                     title            |-> PyStr(""),
                     max_value        |-> PyStr("auto"),
                     min_value        |-> PyStr("auto")], kwargs)
    IN  Update(d, [type |-> d["style"]])

\* _Arcs.__init__ run for cls (BEDPE or Pairs): self.DEFAULT_COLOR is that of cls
Arcs__init__(cls, file_, kwargs) ==
    Update([file               |-> PyStr(file_),
            height             |-> PyFloat("2.0"),
            color              |-> PyStr(IF cls = "Pairs" THEN "#dc9732" ELSE "#3297dc"),
            alpha              |-> PyFloat("0.8"),
            title              |-> PyStr(""),
            point_at           |-> PyStr("mid"),
            score_to_width     |-> PyStr("0.5 + sqrt(score)"),
            diameter_to_height |-> PyStr("max_height * diameter / max_diameter")], kwargs)

\* TADs.__init__
TADs__init__(file_, kwargs) ==
    Update([file         |-> PyStr(file_),
            height       |-> PyInt(DEFAULT_HEIGHT),
            color        |-> PyStr("#808080"),
            border_color |-> PyStr("black"),
            title        |-> PyStr("")], kwargs)

\* Cool.__init__ with the defaults written over the caller's values
Cool__init___defaults_win(file_, kwargs) ==
    LET d == Update(kwargs,
                    [file        |-> PyStr(file_),
                     cmap        |-> PyStr("YlOrRd"),
                     style       |-> PyStr("triangular"),
                     balance     |-> PyBool(TRUE),
                     depth_ratio |-> PyStr("full"),
                     color_bar   |-> PyBool(TRUE),
                     transform   |-> PyBool(FALSE),
                     norm        |-> PyStr("log"),
                     max_value   |-> PyStr("auto"),
                     min_value   |-> PyStr("auto"),
                     title       |-> PyStr("")])
    IN  Update(d, [color |-> d["cmap"]])

\* Cool.__init__
Cool__init__(file_, kwargs) ==
    LET d == Update([file        |-> PyStr(file_),
                     cmap        |-> PyStr("YlOrRd"),
                     style       |-> PyStr("triangular"),
                     balance     |-> PyBool(TRUE),
                     depth_ratio |-> PyStr("full"),
                     color_bar   |-> PyBool(TRUE),
                     transform   |-> PyBool(FALSE),
                     norm        |-> PyStr("log"),
                     max_value   |-> PyStr("auto"),
                     min_value   |-> PyStr("auto"),
                     title       |-> PyStr("")], kwargs)
    IN  Update(d, [color |-> d["cmap"]])

\* DotHiC.__init__: the default cmap is the colormap JuiceBoxLikeColor
DotHiC__init__(file_, kwargs) ==
    LET d == Update([file        |-> PyStr(file_),
                     cmap        |-> <<"Colormap", "interaction">>,
                     style       |-> PyStr("triangular"),
                     balance     |-> PyBool(TRUE),
                     depth_ratio |-> PyStr("full"),
                     color_bar   |-> PyBool(TRUE),
                     transform   |-> PyBool(FALSE),
                     norm        |-> PyStr("log"),
                     max_value   |-> PyStr("auto"),
                     min_value   |-> PyStr("auto"),
                     title       |-> PyStr("")], kwargs)
    IN  Update(d, [color |-> d["cmap"]])

\* HicCompare.__init__
HicCompare__init__(hic1, hic2, kwargs) ==
    LET d == Update([hic1      |-> hic1,
                     hic2      |-> hic2,
                     cmap      |-> PyStr("bwr"),
                     color_bar |-> PyBool(TRUE),
                     title     |-> PyStr("")], kwargs)
    IN  Update(d, [color |-> d["cmap"]])

\* Virtual4C.__init__ from properties_dict on: hic_track is the track given or made
Virtual4C__init__(hic_track, genome_position, kwargs) ==
    Update([hic              |-> hic_track,
            color            |-> PyStr("#2855d8"),
            height           |-> PyInt(DEFAULT_HEIGHT),
            genome_position  |-> genome_position,
            bin_width        |-> PyInt(3),
            max_value        |-> PyStr("auto"),
            min_value        |-> PyStr("auto"),
            show_data_range  |-> PyBool(TRUE),
            data_range_style |-> PyStr("y-axis"),
            style            |-> PyStr("line:1"),
            title            |-> PyStr("")], kwargs)

\* Ideogram.__init__
Ideogram__init__(file_, kwargs) ==
    Update([file         |-> PyStr(file_),
            color_scheme |-> <<"dict", "DEFAULT_COLOR_SCHEME">>,
            show_name    |-> PyBool(TRUE),
            font_size    |-> PyInt(12),
            border_color |-> PyStr("#000000"),
            border_width |-> PyFloat("1.2"),
            height       |-> PyFloat("1.2"),
            title        |-> PyStr("")], kwargs)

\* GTF.__init__
GTF__init__(file_, kwargs) ==
    Update([file                |-> PyStr(file_),
            row_filter          |-> PyStr("feature == gene;source == protein_coding"),
            length_ratio_thresh |-> PyFloat("0.005"),
            height              |-> PyInt(4),
            title               |-> PyStr(""),
            color               |-> PyStr("random")], kwargs)

\* BAM.__init__
BAM__init__(file_, kwargs) ==
    Update([file                |-> PyStr(file_),
            length_ratio_thresh |-> PyFloat("0.005"),
            height              |-> PyInt(3),
            plot_type           |-> PyStr("coverage"),
            style               |-> PyStr("fill"),
            title               |-> PyStr(""),
            color               |-> PyStr("#6688ff"),
            alpha               |-> PyFloat("1.0"),
            bins                |-> PyInt(200),
            data_range_style    |-> PyStr("y-axis"),
            max_value           |-> PyStr("auto"),
            min_value           |-> PyStr("auto")], kwargs)

\* HiCDiff.__init__ from properties_dict on: hic1 and hic2 are the tracks given or made
HiCDiff__init__(hic1, hic2, kwargs) ==
    LET d == Update([hic1        |-> hic1,
                     hic2        |-> hic2,
                     resolution  |-> PyStr("auto"),
                     normalize   |-> PyStr("expect"),
                     diff_method |-> PyStr("diff"),
                     style       |-> PyStr("triangular"),
                     depth_ratio |-> PyStr("full"),
                     cmap        |-> PyStr("RdYlBu"),
                     color_bar   |-> PyBool(TRUE),
                     max_value   |-> PyStr("auto"),
                     min_value   |-> PyStr("auto"),
                     title       |-> PyStr("")], kwargs)
    IN  Update(d, [color |-> d["cmap"]])

\* a track object given as an argument that is not looked into
PyObject(x) == <<"object", x>>

\* the properties_dict the constructor of cls builds, called with a file name
\* (or Hi-C track objects) and the keyword arguments kwargs
ClassProperties(cls, kwargs) ==
    CASE cls = "Spacer" -> Spacer__init__(<<>>, kwargs)
      [] cls = "HLine" -> HLine__init__(kwargs)
      [] cls = "XAxis" -> XAxis__init__(kwargs)
      [] cls = "BED" -> BED__init__("f.bed", kwargs)
      [] cls = "BigWig" -> BigWig__init__("f.bw", kwargs)
      [] cls = "ABCompartment" -> ABCompartment__init__("f.bw", kwargs)
      [] cls = "BedGraph" -> BedGraph__init__("f.bg", kwargs)
      [] cls \in {"BEDPE", "Pairs"} -> Arcs__init__(cls, "f", kwargs)
      [] cls = "TADs" -> TADs__init__("f.bed", kwargs)
      [] cls = "Cool" -> Cool__init__("f.cool", kwargs)
      [] cls = "DotHiC" -> DotHiC__init__("f.hic", kwargs)
      [] cls = "HicCompare" -> HicCompare__init__(PyObject("hic1"), PyObject("hic2"), kwargs)
      [] cls = "Virtual4C" ->
             Virtual4C__init__(PyObject("hic"), PyStr("chr1:2000000-2000000"), kwargs)
      [] cls = "Ideogram" -> Ideogram__init__("f.txt", kwargs)
      [] cls = "GTF" -> GTF__init__("f.gtf", kwargs)
      [] cls = "BAM" -> BAM__init__("f.bam", kwargs)
      [] cls = "HiCDiff" -> HiCDiff__init__(PyObject("hic1"), PyObject("hic2"), kwargs)

\* the features of the stack written into a properties dict, in stack order
RECURSIVE LoadFeatures(_, _)
LoadFeatures(props, stack) ==
    IF stack = <<>> THEN props
    ELSE LoadFeatures(Update(props, [k \in {Head(stack).key} |-> Head(stack).value]), Tail(stack))

\* Track.__init__: the exception raised, or the properties and coverages of the new track
Track__init__(cls, properties_dict, cnt, fstack, cstack) ==
    LET p1 == bool2str(properties_dict)
        named == "name" \in DOMAIN p1
    IN  IF named /\ p1["name"][1] # "str"
        THEN [outcome |-> "AssertionError", properties |-> <<>>, coverages |-> <<>>]
        ELSE LET name == IF named THEN p1["name"] ELSE PyStr(cls \o "." \o ToString(cnt[cls]))
                 p2 == Update(p1, [name |-> name])
             IN  [outcome |-> "ok",
                  properties |-> LoadFeatures(p2, fstack),
                  coverages |-> cstack]

NoValue == [kind |-> "None", id |-> 0]

\* cls(**kwargs)
NewTrack(cls, kwargs) ==
    /\ news < MaxTracks
    /\ LET cnt == Track__new__(cls, counts)
           r == Track__init__(cls, ClassProperties(cls, kwargs), cnt, feature_stack, coverage_stack)
           id == Len(tracks) + 1
       IN  /\ counts' = cnt
           /\ news' = news + 1
           /\ made' = [made EXCEPT ![cls] = @ + 1]
           /\ IF r.outcome = "ok"
              THEN /\ tracks' = Append(tracks, [cls |-> cls, d |-> Len(dicts) + 1, l |-> Len(lists) + 1])
                   /\ dicts' = Append(dicts, r.properties)
                   /\ lists' = Append(lists, r.coverages)
                   /\ born' = Append(born, [properties |-> r.properties, coverages |-> r.coverages])
                   /\ result' = [op |-> "new", outcome |-> "ok", self |-> 0,
                                 other |-> [kind |-> "kwargs", id |-> kwargs],
                                 value |-> [kind |-> "Track", id |-> id]]
              ELSE /\ UNCHANGED <<tracks, dicts, lists, born>>
                   /\ result' = [op |-> "new", outcome |-> r.outcome, self |-> 0,
                                 other |-> [kind |-> "kwargs", id |-> kwargs],
                                 value |-> NoValue]
    /\ UNCHANGED <<jvars, cframes, feature_stack, coverage_stack>>

-----------------------------------------------------------------------------
(* Track.__add__ *)

\* the properties and the coverages a Track object shows
Properties(t) == dicts[tracks[t].d]
CoveragesOf(t) == lists[tracks[t].l]

\* Frame.add_track(track, pos): the members of the frame afterwards
add_track(members, track, pos) ==
    IF pos = "head" THEN <<track>> \o members ELSE Append(members, track)

\* Track.__add__ adding the right operand first
add_Track_other_first(self, other) == add_track(add_track(<<>>, other, "tail"), self, "tail")

\* Track.__add__, other a Track: the members of the Frame returned
add_Track(self, other) == add_track(add_track(<<>>, self, "tail"), other, "tail")

\* Track.__add__, other a Frame: the members of the copy returned
add_Frame(self, members) == add_track(members, self, "head")

\* Track.append_coverage: the coverages list afterwards
append_coverage(coverages, coverage, pos) ==
    IF pos = "top" THEN Append(coverages, coverage) ELSE <<coverage>> \o coverages

\* Track.pile_coverages with a list: the coverages list afterwards
pile_coverages(coverages, piled, pos) ==
    IF pos = "top" THEN coverages \o piled ELSE piled \o coverages

\* track + track
AddTrack(self, other) ==
    /\ Len(cframes) < MaxFrames
    /\ cframes' = Append(cframes, add_Track(self, other))
    /\ result' = [op |-> "add", outcome |-> "ok", self |-> self,
                  other |-> [kind |-> "Track", id |-> other],
                  value |-> [kind |-> "Frame", id |-> Len(cframes) + 1]]
    /\ UNCHANGED <<jvars, tracks, dicts, lists, born, counts, news, made, feature_stack, coverage_stack>>

\* track + frame
AddFrame(self, f) ==
    /\ Len(cframes) < MaxFrames
    /\ cframes' = Append(cframes, add_Frame(self, cframes[f]))
    /\ result' = [op |-> "add", outcome |-> "ok", self |-> self,
                  other |-> [kind |-> "Frame", id |-> f],
                  value |-> [kind |-> "Frame", id |-> Len(cframes) + 1]]
    /\ UNCHANGED <<jvars, tracks, dicts, lists, born, counts, news, made, feature_stack, coverage_stack>>

\* frame + track (Frame.__add__): a copy of the frame with the track appended
FrameAddTrack(f, track) ==
    /\ Len(cframes) < MaxFrames
    /\ cframes' = Append(cframes, add_track(cframes[f], track, "tail"))
    /\ result' = [op |-> "frame_add", outcome |-> "ok", self |-> f,
                  other |-> [kind |-> "Track", id |-> track],
                  value |-> [kind |-> "Frame", id |-> Len(cframes) + 1]]
    /\ UNCHANGED <<jvars, tracks, dicts, lists, born, counts, news, made, feature_stack, coverage_stack>>

\* copy(self) followed by a change of the copy's coverages list in place: copy()
\* makes the new object with cls.__new__ and gives it the attributes of self, so
\* the copy's .properties and .coverages are the dict and the list of self
CopyWithCoverages(self, other, coverages) ==
    /\ news < MaxTracks
    /\ counts' = Track__new__(tracks[self].cls, counts)
    /\ news' = news + 1
    /\ made' = [made EXCEPT ![tracks[self].cls] = @ + 1]
    /\ tracks' = Append(tracks, tracks[self])
    /\ lists' = [lists EXCEPT ![tracks[self].l] = coverages]
    /\ born' = Append(born, [properties |-> Properties(self), coverages |-> coverages])
    /\ result' = [op |-> "add", outcome |-> "ok", self |-> self, other |-> other,
                  value |-> [kind |-> "Track", id |-> Len(tracks) + 1]]
    /\ UNCHANGED <<jvars, dicts, cframes, feature_stack, coverage_stack>>

\* track + coverage
AddCoverage(self, c) ==
    CopyWithCoverages(self, [kind |-> "Coverage", id |-> c],
                      append_coverage(CoveragesOf(self), c, "top"))

\* track + CoverageStack(coverages)
AddCoverageStack(self, cs) ==
    CopyWithCoverages(self, [kind |-> "CoverageStack", id |-> cs],
                      pile_coverages(CoveragesOf(self), cs, "top"))

\* the types of right operands that Track.__add__ has no branch for
OtherOperands == {"str", "int"}

\* op_err_msg(a, b): the message of an unsupported-operand error, which names
\* the types of both operands
op_err_msg(a, b) == [text |-> "unsupported operand type(s) for +", left |-> a, right |-> b]

\* the else branch of Track.__add__ building its message from self alone
add_other_self_twice(self_type, other_type) ==
    [outcome |-> "TypeError", message |-> op_err_msg(self_type, self_type)]

\* the else branch of Track.__add__: raise TypeError(op_err_msg(self, other))
add_other(self_type, other_type) ==
    [outcome |-> "TypeError", message |-> op_err_msg(self_type, other_type)]

\* track + an object of any other type
AddOther(self, x) ==
    /\ LET r == add_other(tracks[self].cls, x)
       IN  result' = [op |-> "add", outcome |-> r.outcome, self |-> self,
                      other |-> [kind |-> "other", id |-> x], value |-> NoValue,
                      message |-> r.message]
    /\ UNCHANGED <<jvars, tracks, dicts, lists, born, cframes, counts, news, made,
                   feature_stack, coverage_stack>>

-----------------------------------------------------------------------------
(* The factories Arcs and HiCMat, and the constructors that call HiCMat *)

\* A path is the sequence of its pieces: a stem and then its extensions, so
\* that "x.bedpe.bgz" is <<"x", ".bedpe", ".bgz">>
Extensions == {".bedpe", ".pairs", ".bgz", ".hic", ".cool", ".mcool", ".txt"}

\* the longest run of extensions a path has
MaxExtensions == 2

RECURSIVE SeqsUpTo(_, _)
SeqsUpTo(S, n) ==
    IF n = 0 THEN {<<>>}
    ELSE LET shorter == SeqsUpTo(S, n - 1)
         IN  shorter \cup {Append(q, x) : q \in shorter, x \in S}

Paths == {<<"x">> \o e : e \in SeqsUpTo(Extensions, MaxExtensions)}

\* the paths with one extension
ShortPaths == {<<"x", e>> : e \in Extensions}

\* str.endswith
endswith(str, suffix) ==
    /\ Len(str) >= Len(suffix)
    /\ SubSeq(str, Len(str) - Len(suffix) + 1, Len(str)) = suffix

\* the text of an error, in pieces
Arcs_message == <<"Arcs track only support ", ".bedpe", " or ", ".pairs", " input format.">>
HiCMat_message == <<"Hi-C Matrix only support ", ".hic", " or ", ".cool", " input format.">>

\* Arcs without the branches of the compressed files
Arcs_no_bgz(file_) ==
    IF endswith(file_, <<".bedpe">>)
    THEN [outcome |-> "ok", cls |-> "BEDPE", message |-> <<>>]
    ELSE IF endswith(file_, <<".pairs">>)
    THEN [outcome |-> "ok", cls |-> "Pairs", message |-> <<>>]
    ELSE [outcome |-> "NotImplementedError", cls |-> "", message |-> Arcs_message]

\* Arcs: the class it constructs, or the error it raises
Arcs(file_) ==
    IF endswith(file_, <<".bedpe">>) \/ endswith(file_, <<".bedpe", ".bgz">>)
    THEN [outcome |-> "ok", cls |-> "BEDPE", message |-> <<>>]
    ELSE IF endswith(file_, <<".pairs">>) \/ endswith(file_, <<".pairs", ".bgz">>)
    THEN [outcome |-> "ok", cls |-> "Pairs", message |-> <<>>]
    ELSE [outcome |-> "NotImplementedError", cls |-> "", message |-> Arcs_message]

\* HiCMat taking .mcool for a .hic file
HiCMat_mcool_as_hic(file_) ==
    IF endswith(file_, <<".hic">>) \/ endswith(file_, <<".mcool">>)
    THEN [outcome |-> "ok", cls |-> "DotHiC", message |-> <<>>]
    ELSE IF endswith(file_, <<".cool">>)
    THEN [outcome |-> "ok", cls |-> "Cool", message |-> <<>>]
    ELSE [outcome |-> "NotImplementedError", cls |-> "", message |-> HiCMat_message]

\* HiCMat: the class it constructs, or the error it raises
HiCMat(file_) ==
    IF endswith(file_, <<".hic">>)
    THEN [outcome |-> "ok", cls |-> "DotHiC", message |-> <<>>]
    ELSE IF endswith(file_, <<".cool">>) \/ endswith(file_, <<".mcool">>)
    THEN [outcome |-> "ok", cls |-> "Cool", message |-> <<>>]
    ELSE [outcome |-> "NotImplementedError", cls |-> "", message |-> HiCMat_message]

\* the Track objects and the class counters, as one value
Heap ==
    [tracks |-> tracks, dicts |-> dicts, lists |-> lists, born |-> born,
     counts |-> counts, news |-> news, made |-> made]

\* cls.__new__ on the heap h
New(h, cls) ==
    [h EXCEPT !.counts = Track__new__(cls, h.counts),
              !.news = @ + 1,
              !.made = [@ EXCEPT ![cls] = @ + 1]]

\* Track.__init__ of a new cls object on the heap h: the track is kept when no
\* exception is raised
Initialize(h, cls, properties_dict) ==
    LET r == Track__init__(cls, properties_dict, h.counts, feature_stack, coverage_stack)
    IN  IF r.outcome = "ok"
        THEN [outcome |-> "ok", message |-> <<>>, value |-> Len(h.tracks) + 1,
              heap |-> [h EXCEPT
                          !.tracks = Append(@, [cls |-> cls, d |-> Len(h.dicts) + 1,
                                                l |-> Len(h.lists) + 1]),
                          !.dicts = Append(@, r.properties),
                          !.lists = Append(@, r.coverages),
                          !.born = Append(@, [properties |-> r.properties,
                                              coverages |-> r.coverages])]]
        ELSE [outcome |-> r.outcome, message |-> <<>>, value |-> 0, heap |-> h]

\* the call a factory makes: cls(file_, **kwargs), or the error of the factory
FromFactory(h, chosen, file_, kwargs) ==
    IF chosen.outcome # "ok"
    THEN [outcome |-> chosen.outcome, message |-> chosen.message, value |-> 0, heap |-> h]
    ELSE LET cls == chosen.cls
             properties_dict ==
                 CASE cls \in {"BEDPE", "Pairs"} -> Arcs__init__(cls, file_, kwargs)
                   [] cls = "Cool" -> Cool__init__(file_, kwargs)
                   [] cls = "DotHiC" -> DotHiC__init__(file_, kwargs)
         IN  Initialize(New(h, cls), cls, properties_dict)

\* an argument that is a path (a str) or a track object
IsStr(x) == x.kind = "str"
PathArg(file_) == [kind |-> "str", id |-> file_]
TrackArg(t) == [kind |-> "Track", id |-> t]
PyTrack(t) == <<"Track", t>>

\* hic_track_or_file turned into a track: HiCMat(path, **args_hic) for a str
AsHicTrack(h, x) ==
    IF IsStr(x)
    THEN FromFactory(h, HiCMat(x.id), x.id, <<>>)
    ELSE [outcome |-> "ok", message |-> <<>>, value |-> x.id, heap |-> h]

\* Virtual4C(hic_track_or_file, genome_position)
Virtual4C(h, hic_track_or_file, genome_position) ==
    LET h1 == New(h, "Virtual4C")
        hic == AsHicTrack(h1, hic_track_or_file)
    IN  IF hic.outcome # "ok" THEN hic
        ELSE Initialize(hic.heap, "Virtual4C",
                        Virtual4C__init__(PyTrack(hic.value), genome_position, <<>>))

\* HiCDiff(hic1, hic2)
HiCDiff(h, hic1, hic2) ==
    LET h1 == New(h, "HiCDiff")
        t1 == AsHicTrack(h1, hic1)
    IN  IF t1.outcome # "ok" THEN t1
        ELSE LET t2 == AsHicTrack(t1.heap, hic2)
             IN  IF t2.outcome # "ok" THEN t2
                 ELSE Initialize(t2.heap, "HiCDiff",
                                 HiCDiff__init__(PyTrack(t1.value), PyTrack(t2.value), <<>>))

\* the state after a call that left the heap r.heap and returned or raised as r says
Return(op, args, r) ==
    /\ r.heap.news <= MaxTracks
    /\ tracks' = r.heap.tracks
    /\ dicts' = r.heap.dicts
    /\ lists' = r.heap.lists
    /\ born' = r.heap.born
    /\ counts' = r.heap.counts
    /\ news' = r.heap.news
    /\ made' = r.heap.made
    /\ result' = [op |-> op, outcome |-> r.outcome, self |-> 0,
                  other |-> [kind |-> "args", id |-> args],
                  value |-> IF r.outcome = "ok" THEN [kind |-> "Track", id |-> r.value]
                            ELSE NoValue,
                  message |-> r.message]
    /\ UNCHANGED <<jvars, cframes, feature_stack, coverage_stack>>

\* the arguments a Hi-C track is given as: a track that exists, or a path
HicArgs == {TrackArg(t) : t \in 1..Len(tracks)} \cup {PathArg(f) : f \in ShortPaths}

DoArcs ==
    /\ tracks = <<>>
    /\ \E file_ \in Paths :
           Return("Arcs", <<PathArg(file_)>>, FromFactory(Heap, Arcs(file_), file_, <<>>))

DoHiCMat ==
    /\ tracks = <<>>
    /\ \E file_ \in Paths :
           Return("HiCMat", <<PathArg(file_)>>, FromFactory(Heap, HiCMat(file_), file_, <<>>))

DoVirtual4C ==
    /\ Len(tracks) <= 1
    /\ \E x \in HicArgs :
           Return("Virtual4C", <<x>>, Virtual4C(Heap, x, PyStr("chr1:2000000-2000000")))

DoHiCDiff ==
    /\ Len(tracks) <= 1
    /\ \E x \in HicArgs, y \in HicArgs :
           Return("HiCDiff", <<x, y>>, HiCDiff(Heap, x, y))

FactoryNext ==
    \/ DoArcs
    \/ DoHiCMat
    \/ DoVirtual4C
    \/ DoHiCDiff

-----------------------------------------------------------------------------
NoCall == [op |-> "none", outcome |-> "ok", supplied |-> {},
           center |-> [isTrack |-> TRUE, hasPlotJoint |-> TRUE],
           gr1 |-> None, gr2 |-> None, res |-> NoResult]

NoResultYet == [op |-> "none", outcome |-> "ok", self |-> 0, other |-> NoValue, value |-> NoValue]

\* no Track made yet; the run is inside no `with` block
TInit ==
    /\ tracks = <<>>
    /\ dicts = <<>>
    /\ lists = <<>>
    /\ born = <<>>
    /\ cframes = <<>>
    /\ counts = [c \in AllClasses |-> 0]
    /\ news = 0
    /\ made = [c \in AllClasses |-> 0]
    /\ feature_stack = <<>>
    /\ coverage_stack = <<>>
    /\ result = NoResultYet

Init ==
    /\ frames \in [1..NFrames -> FrameShapes]
    /\ jv = <<>>
    /\ last = NoCall
    /\ TInit

\* the run builds its JointView in its first call (a construction that fails
\* leaves the frames as they were, so trying again reaches no other state)
DoConstruct ==
    /\ jv = <<>>
    /\ last.op = "none"
    /\ \E center \in Centers, args \in [Slots -> SlotArgs], kw \in KwargsOptions :
           Construct(center, args, kw)

DoPlot ==
    \E genome_range1 \in Ranges, genome_range2 \in Ranges \cup {None} :
        Plot(genome_range1, genome_range2)

Next ==
    \/ DoConstruct
    \/ DoPlot

\* JointView: construction and plotting
Spec == Init /\ [][Next]_vars

-----------------------------------------------------------------------------
\* no Track made yet; the run is inside at most one `with coverage:` block
\* (as in test_vlines) and inside no `with feature:` block
TrackInit ==
    /\ frames = <<>>
    /\ jv = <<>>
    /\ last = NoCall
    /\ tracks = <<>>
    /\ dicts = <<>>
    /\ lists = <<>>
    /\ born = <<>>
    /\ cframes = <<>>
    /\ counts = [c \in AllClasses |-> 0]
    /\ news = 0
    /\ made = [c \in AllClasses |-> 0]
    /\ feature_stack = <<>>
    /\ coverage_stack \in {<<>>, <<"vlines">>}
    /\ result = NoResultYet

DoNewTrack == \E cls \in Classes, kwargs \in TrackKwargs : NewTrack(cls, kwargs)
DoAddTrack == \E self \in 1..Len(tracks), other \in 1..Len(tracks) : AddTrack(self, other)
DoAddFrame == \E self \in 1..Len(tracks), f \in 1..Len(cframes) : AddFrame(self, f)
DoFrameAddTrack == \E f \in 1..Len(cframes), t \in 1..Len(tracks) : FrameAddTrack(f, t)
DoAddCoverage == \E self \in 1..Len(tracks), c \in Coverages : AddCoverage(self, c)
DoAddCoverageStack ==
    \E self \in 1..Len(tracks), cs \in CoverageStacks : AddCoverageStack(self, cs)
DoAddOther == \E self \in 1..Len(tracks), x \in OtherOperands : AddOther(self, x)

TrackNext ==
    \/ DoNewTrack
    \/ DoAddCoverage
    \/ DoAddCoverageStack
    \/ DoAddOther

\* Track: construction, and + with a Coverage, a CoverageStack or an unsupported operand
TrackSpec == TrackInit /\ [][TrackNext]_vars

-----------------------------------------------------------------------------
\* XAxis(), the track of test_vlines
DoNewXAxis == NewTrack("XAxis", <<>>)

ComposeNext ==
    \/ DoNewXAxis
    \/ DoAddTrack
    \/ DoAddFrame
    \/ DoFrameAddTrack

\* Track and Frame: composition into Frames with +
ComposeSpec == TrackInit /\ [][ComposeNext]_vars

-----------------------------------------------------------------------------
\* the values a caller gives for a keyword
UserValues == {PyStr("user"), PyBool(TRUE), PyBool(FALSE)}

\* the keywords a caller can give to the constructor of cls: the keys the
\* constructor knows, 'name', and a key it has no default for; hic1, hic2 and
\* genome_position are parameters of their constructors, not keywords
UserKeys(cls) ==
    ((DOMAIN ClassProperties(cls, <<>>)) \cup {"name", "orientation"})
        \ {"hic1", "hic2", "genome_position"}

\* **kwargs of the constructor of cls: nothing, or one keyword
KwargsOf(cls) == {<<>>} \cup {[k \in {key} |-> v] : key \in UserKeys(cls), v \in UserValues}

\* no Track made yet; the run is inside at most one `with feature:` block
ConfigInit ==
    /\ frames = <<>>
    /\ jv = <<>>
    /\ last = NoCall
    /\ tracks = <<>>
    /\ dicts = <<>>
    /\ lists = <<>>
    /\ born = <<>>
    /\ cframes = <<>>
    /\ counts = [c \in AllClasses |-> 0]
    /\ news = 0
    /\ made = [c \in AllClasses |-> 0]
    /\ feature_stack \in {<<>>} \cup {<<f>> : f \in Features}
    /\ coverage_stack = <<>>
    /\ result = NoResultYet

\* the first construction of the run: cls(**kwargs) for any track class
DoConfigure ==
    /\ result.op = "none"
    /\ \E cls \in TrackTypes : \E kwargs \in KwargsOf(cls) : NewTrack(cls, kwargs)

ConfigNext == DoConfigure

\* the constructors of all track classes, with and without a feature
ConfigSpec == ConfigInit /\ [][ConfigNext]_vars

-----------------------------------------------------------------------------
FloatInit ==
    /\ frames \in [1..2 -> FloatFrames]
    /\ jv = <<>>
    /\ last = NoCall
    /\ TInit

DoConstructFloat == \E kw \in CenterWidthKwargs : ConstructFloat(kw)

FloatNext == DoConstructFloat

\* a plot call with one range; which rendering raises is free
DoPlotRendering == \E failure \in Failures : PlotRendering("chr1:0-1000", None, failure)

\* the construction of the run, with no keyword argument
DoConstructPlain ==
    /\ jv = <<>>
    /\ last.op = "none"
    /\ \E center \in Centers, args \in [Slots -> SlotArgs] : Construct(center, args, <<>>)

RenderNext ==
    \/ DoConstructPlain
    \/ DoPlotRendering

\* JointView: construction, and plotting with renderings that raise
RenderSpec == Init /\ [][RenderNext]_vars

SharedInit ==
    /\ frames \in [SharedFrames -> FrameShapes]
    /\ jv = <<>>
    /\ last = NoCall
    /\ TInit

\* center_width given as a keyword, or not given
SharedKwargs == {kw \in KwargsOptions : DOMAIN kw \subseteq {"center_width"}}

DoConstructShared ==
    \E top \in SharedFrames, right \in SharedFrames, kw \in SharedKwargs :
        ConstructShared(top, right, kw)

DoPlotShared == \E i \in 1..Len(jv) : PlotShared(i, "chr1:0-1000", None)

SharedNext ==
    \/ DoConstructShared
    \/ DoPlotShared

\* several JointViews over the same Frame objects
SharedSpec == SharedInit /\ [][SharedNext]_vars

\* JointView construction with the widths computed in binary64
FloatSpec == FloatInit /\ [][FloatNext]_vars

\* the factories, and Virtual4C and HiCDiff given paths or tracks
FactoryInit ==
    /\ frames = <<>>
    /\ jv = <<>>
    /\ last = NoCall
    /\ TInit

FactorySpec == FactoryInit /\ [][FactoryNext]_vars

-----------------------------------------------------------------------------
(* Properties of JointView, checked under Spec *)

Built == jv # <<>>
PlotOk == last.op = "plot" /\ last.outcome = "ok"
Has(k) == k \in DOMAIN jv[1].sub_frames
FrameAt(k) == frames[jv[1].sub_frames[k]]

\* C1: construction fails whenever fewer than 2 of top/right/bottom/left are
\* supplied, and every JointView that was built holds at least 2 peripheral
\* frames in its sub_frames mapping
C1_AtLeastTwoPeripherals ==
    /\ (last.op = "construct" /\ Cardinality(last.supplied) < 2) =>
           (last.outcome # "ok" /\ ~Built)
    /\ Built => Cardinality(DOMAIN jv[1].sub_frames) >= 2

\* C2: with at least 2 peripherals, a center that has no plot_joint and is no
\* Track makes the construction fail with TypeError, and no JointView is built
C2_BadCenterRejected ==
    (/\ last.op = "construct"
     /\ Cardinality(last.supplied) >= 2
     /\ ~last.center.isTrack
     /\ ~last.center.hasPlotJoint) =>
        (last.outcome = "TypeError" /\ ~Built)

C2_Witness ==
    /\ last.op = "construct"
    /\ Cardinality(last.supplied) >= 2
    /\ ~last.center.isTrack
    /\ ~last.center.hasPlotJoint
    /\ last.outcome = "TypeError"

\* C3: the center of every JointView that was built has plot_joint
C3_CenterHasPlotJoint == Built => jv[1].center_track.hasPlotJoint

\* the canvas size as the rule of the layout states it: the width is that of
\* bottom, else of top, else center_width, plus height + space of left and of
\* right; the height is center_width plus height + space of top and of bottom
CanvasSide(k) == IF Has(k) THEN RAdd(FrameAt(k).height, jv[1].space) ELSE Zero
CanvasSize ==
    LET base == IF Has("bottom") THEN FrameAt("bottom").width
                ELSE IF Has("top") THEN FrameAt("top").width
                ELSE jv[1].center_width
    IN  <<RAdd(RAdd(base, CanvasSide("left")), CanvasSide("right")),
          RAdd(RAdd(jv[1].center_width, CanvasSide("top")), CanvasSide("bottom"))>>

\* C4: the canvas size plot computes starts at (center_width, center_width); top
\* and bottom each set the width to their own width and add height + space to
\* the height; then left and right each add height + space to the width
C4_CanvasSize == PlotOk => last.res.figsize = CanvasSize

C4_Witness == PlotOk /\ Has("top") /\ Has("bottom") /\ Has("left") /\ ~Has("right")

\* C5 as stated: with exactly top and right, the canvas width is top.width and
\* the canvas height is center_width + top.height + space
C5_WidthIsTopWidth ==
    (PlotOk /\ DOMAIN jv[1].sub_frames = {"top", "right"}) =>
        /\ last.res.figsize[1] = FrameAt("top").width
        /\ last.res.figsize[2] =
               RAdd(RAdd(jv[1].center_width, FrameAt("top").height), jv[1].space)

\* C5 amended: with exactly top and right, the canvas width is
\* top.width + right.height + space and the canvas height is
\* center_width + top.height + space
C5_WidthIsTopPlusRight ==
    (PlotOk /\ DOMAIN jv[1].sub_frames = {"top", "right"}) =>
        /\ last.res.figsize[1] =
               RAdd(RAdd(FrameAt("top").width, FrameAt("right").height), jv[1].space)
        /\ last.res.figsize[2] =
               RAdd(RAdd(jv[1].center_width, FrameAt("top").height), jv[1].space)

C5_Witness == PlotOk /\ DOMAIN jv[1].sub_frames = {"top", "right"}

\* C6: plot(r) computes the range of every slot, the center offset and the
\* canvas size that plot(r, r) computes; every slot is plotted with r
C6_OmittedSecondRange ==
    (PlotOk /\ last.gr2 = None) =>
        LET twice == plot(jv[1], frames, last.gr1, last.gr1)
        IN  /\ last.res.frame2grange = twice.frame2grange
            /\ \A k \in Slots : last.res.frame2grange[k] = last.gr1
            /\ last.res.frame_svgs = twice.frame_svgs
            /\ last.res.center_offsets = twice.center_offsets
            /\ last.res.figsize = twice.figsize

C6_Witness ==
    /\ PlotOk
    /\ last.gr2 = None
    /\ \E i \in 1..4 : jv[1].trbl[i] # "1" /\ Has(orientations[i])

\* C7: the figure plot returns declares canvas size * cm2px as its pixel width
\* and height, and holds the center panel and one panel per populated slot
C7_Figure ==
    PlotOk =>
        LET fig == last.res.fig
            keys == Keys(jv[1].sub_frames)
        IN  /\ fig.width = <<RMul(CanvasSize[1], jv[1].cm2px), "px">>
            /\ fig.height = <<RMul(CanvasSize[2], jv[1].cm2px), "px">>
            /\ Len(fig.panels) = 1 + Len(keys)
            /\ fig.panels[1].name = "center"
            /\ \A i \in 1..Len(keys) : fig.panels[i + 1].name = keys[i]

C7_Witness == PlotOk /\ Cardinality(DOMAIN jv[1].sub_frames) = 3

\* C8 as stated: a plot call changes no configuration value of the JointView
\* or of its frames
C8_PlotChangesNothing == [][last'.op = "plot" => (jv' = jv /\ frames' = frames)]_vars

\* the properties of the JointView other than the stored canvas size
Config(props) == [k \in (DOMAIN props) \ {"width", "height"} |-> props[k]]

\* C8 amended: a plot call changes nothing of the JointView or its frames but
\* the 'width' and 'height' properties, where it stores the canvas size; what
\* it computes depends only on its ranges and the configuration
C8_PlotStoresOnlySize ==
    [][last'.op = "plot" =>
          /\ frames' = frames
          /\ Built /\ jv' # <<>>
          /\ Config(jv'[1]) = Config(jv[1])
          /\ last'.outcome = "ok" =>
                 /\ last'.res = plot(Config(jv[1]), frames, last'.gr1, last'.gr2)
                 /\ jv'[1]["width"] = last'.res.figsize[1]
                 /\ jv'[1]["height"] = last'.res.figsize[2]]_vars

C8_Witness == PlotOk /\ "width" \in DOMAIN jv[1] /\ "height" \in DOMAIN jv[1]

-----------------------------------------------------------------------------
(* Properties of the layout of JointView.plot, checked under Spec *)

\* C17 as stated: the center offset is
\* x = padding_left + top.width * top.width_ratios[0] (top populated)
\*     + space + left.height (left populated),
\* y = space + top.height (top populated), and no other slot contributes
C17_OffsetFromTopAndLeft ==
    PlotOk =>
        LET p == jv[1]
            top == IF Has("top") THEN FrameAt("top") ELSE <<>>
            left == IF Has("left") THEN FrameAt("left") ELSE <<>>
            x == RAdd(RAdd(p.padding_left,
                           IF Has("top") THEN RMul(top.width, top.width_ratios[1]) ELSE Zero),
                      IF Has("left") THEN RAdd(p.space, left.height) ELSE Zero)
            y == IF Has("top") THEN RAdd(p.space, top.height) ELSE Zero
        IN  last.res.center_offsets = <<x, y>>

\* the center offset with the term of the bottom frame: a bottom frame under
\* no top frame adds bottom.width * bottom.width_ratios[0] to x
CenterOffset ==
    LET p == jv[1]
        top == IF Has("top") THEN FrameAt("top") ELSE <<>>
        bottom == IF Has("bottom") THEN FrameAt("bottom") ELSE <<>>
        left == IF Has("left") THEN FrameAt("left") ELSE <<>>
        fromTop == IF Has("top") THEN RMul(top.width, top.width_ratios[1]) ELSE Zero
        fromBottom == IF Has("bottom") /\ ~Has("top")
                      THEN RMul(bottom.width, bottom.width_ratios[1]) ELSE Zero
        fromLeft == IF Has("left") THEN RAdd(p.space, left.height) ELSE Zero
    IN  <<RAdd(RAdd(RAdd(p.padding_left, fromTop), fromBottom), fromLeft),
          IF Has("top") THEN RAdd(p.space, top.height) ELSE Zero>>

\* C17 amended: x = padding_left + top.width * top.width_ratios[0] (top
\* populated) + bottom.width * bottom.width_ratios[0] (bottom populated and top
\* not) + space + left.height (left populated), y = space + top.height (top
\* populated); the right slot contributes nothing
C17_OffsetWithBottom == PlotOk => last.res.center_offsets = CenterOffset

C17_Witness == PlotOk /\ Has("bottom") /\ Has("left") /\ ~Has("top")

\* the character of the trbl code at the position of slot k
\* (0 = top, 1 = right, 2 = bottom, 3 = left in the source)
CodeAt(k) ==
    LET trbl == jv[1].trbl
    IN  CASE k = "top" -> trbl[1]
          [] k = "right" -> trbl[2]
          [] k = "bottom" -> trbl[3]
          [] k = "left" -> trbl[4]

\* C18: every populated slot is rendered with the first range when its
\* character of the trbl code is '1' and with the second range otherwise; the
\* code is '1212' unless the caller gave another, and then top and bottom are
\* rendered with the first range, right and left with the second
C18_RangeByTrbl ==
    /\ Built => jv[1].trbl \in {<<"1", "2", "1", "2">>}
                               \cup {kw.trbl : kw \in {o \in KwargsOptions : "trbl" \in DOMAIN o}}
    /\ PlotOk =>
        LET second == IF last.gr2 = None THEN last.gr1 ELSE last.gr2
            svgs == last.res.frame_svgs
        IN  /\ {svgs[i].slot : i \in 1..Len(svgs)} = DOMAIN jv[1].sub_frames
            /\ \A i \in 1..Len(svgs) :
                   svgs[i].range = IF CodeAt(svgs[i].slot) = "1" THEN last.gr1 ELSE second
            /\ jv[1].trbl = <<"1", "2", "1", "2">> =>
                   \A i \in 1..Len(svgs) :
                       svgs[i].range = IF svgs[i].slot \in {"top", "bottom"}
                                       THEN last.gr1 ELSE second

C18_Witness ==
    /\ PlotOk
    /\ jv[1].trbl = <<"1", "2", "1", "2">>
    /\ last.gr2 \notin {None, last.gr1}
    /\ Has("top") /\ Has("right") /\ Has("left")

\* the transform calls made on the panel called name
CallsOn(name) ==
    LET panels == last.res.fig.panels
    IN  panels[CHOOSE i \in 1..Len(panels) : panels[i].name = name].svg.calls

\* C20: the top panel is moved by (padding_left * cm2px, 0) and nothing else;
\* the right panel is rotated by 90 degrees and moved to
\* ((offset.x + center_width + right.height + space) * cm2px,
\*  (offset.y - right.width * right.width_ratios[0]) * cm2px);
\* the center panel is moved to offset * cm2px
C20_PanelTransforms ==
    PlotOk =>
        LET p == jv[1]
            off == CenterOffset
        IN  /\ CallsOn("center") = <<Move(RMul(off[1], p.cm2px), RMul(off[2], p.cm2px))>>
            /\ Has("top") => CallsOn("top") = <<Move(RMul(p.padding_left, p.cm2px), Zero)>>
            /\ Has("right") =>
                   LET right == FrameAt("right")
                       x == RAdd(RAdd(RAdd(off[1], p.center_width), right.height), p.space)
                       y == RSub(off[2], RMul(right.width, right.width_ratios[1]))
                   IN  CallsOn("right") = <<Rotate(90), Move(RMul(x, p.cm2px), RMul(y, p.cm2px))>>

C20_Witness == PlotOk /\ Has("top") /\ Has("right")

-----------------------------------------------------------------------------
(* Properties of Track composition, checked under ComposeSpec and TrackSpec *)

\* C9: a + b is the Frame [a, b]; (frame) + c is the frame's members followed
\* by c, so a + b + c is [a, b, c]; a + frame is a followed by the frame's
\* members; no + changes the members of a Frame that exists
C9_OrderPreserved ==
    /\ [](/\ (result.op = "add" /\ result.other.kind = "Track") =>
                 cframes[result.value.id] = <<result.self, result.other.id>>
          /\ (result.op = "frame_add") =>
                 cframes[result.value.id] = cframes[result.self] \o <<result.other.id>>
          /\ (result.op = "add" /\ result.other.kind = "Frame") =>
                 cframes[result.value.id] = <<result.self>> \o cframes[result.other.id])
    /\ [][\A f \in 1..Len(cframes) : cframes'[f] = cframes[f]]_vars

C9_Witness ==
    \E a, b, c \in 1..Len(tracks) :
        /\ a # b /\ b # c /\ a # c
        /\ \E f, g \in 1..Len(cframes) :
               /\ cframes[f] = <<a, b>>
               /\ cframes[g] = <<a, b, c>>
               /\ result.op = "frame_add" /\ result.self = f /\ result.value.id = g

\* C10: track + coverage returns a copy whose coverages are the original's
\* followed by the coverage, and every Track keeps the properties and the
\* coverages it had when it was made
C10_OriginalUnchanged ==
    /\ (result.op = "add" /\ result.outcome = "ok" /\ result.other.kind = "Coverage") =>
           /\ Len(CoveragesOf(result.value.id)) >= 1
           /\ CoveragesOf(result.value.id)[Len(CoveragesOf(result.value.id))] = result.other.id
    /\ \A t \in 1..Len(tracks) :
           /\ Properties(t) = born[t].properties
           /\ CoveragesOf(t) = born[t].coverages

\* C11: track + x, x of a type Track.__add__ has no branch for, raises a
\* TypeError whose message names the type of the track and the type of x, and
\* returns nothing; the call changes no Track, no properties dict and no
\* coverages list
C11_UnsupportedOperand ==
    /\ [](((result.op = "add" /\ result.other.kind = "other") =>
              /\ result.outcome = "TypeError"
              /\ result.value = NoValue
              /\ result.message.left = tracks[result.self].cls
              /\ result.message.right = result.other.id))
    /\ [][(result'.op = "add" /\ result'.other.kind = "other") =>
              /\ tracks' = tracks
              /\ dicts' = dicts
              /\ lists' = lists
              /\ cframes' = cframes]_vars

C11_Witness ==
    /\ result.op = "add" /\ result.other.kind = "other" /\ result.outcome = "TypeError"
    /\ tracks[result.self].cls = "BigWig"
    /\ result.other.id = "int"
    /\ Len(CoveragesOf(result.self)) > 0

\* C14: a track constructed without a name is named '{ClassName}.{k}', k the
\* number of instances of that very class made so far (constructions that
\* succeeded or failed and copies made by + all counted)
C14_DefaultName ==
    (result.op = "new" /\ result.outcome = "ok" /\ "name" \notin DOMAIN result.other.id) =>
        LET cls == tracks[result.value.id].cls
        IN  Properties(result.value.id)["name"] = PyStr(cls \o "." \o ToString(made[cls]))

-----------------------------------------------------------------------------
(* Properties of the factories, checked under FactorySpec *)

\* the path a factory was called with, its last extension and its last two
CalledPath == result.other.id[1].id
LastOf(file_) == file_[Len(file_)]
LastTwoOf(file_) == IF Len(file_) >= 2 THEN SubSeq(file_, Len(file_) - 1, Len(file_)) ELSE <<>>

\* the call returned a track of class cls
Returned(cls) ==
    /\ result.outcome = "ok"
    /\ result.value.kind = "Track"
    /\ tracks[result.value.id].cls = cls

\* the call raised NotImplementedError and returned nothing
NotImplemented == result.outcome = "NotImplementedError" /\ result.value = NoValue

\* C12 as stated: Arcs returns a BEDPE track for a path ending in .bedpe, a
\* Pairs track for a path ending in .pairs, and raises NotImplementedError for
\* every path with any other suffix
C12_ArcsBySuffix ==
    result.op = "Arcs" =>
        /\ LastOf(CalledPath) = ".bedpe" => Returned("BEDPE")
        /\ LastOf(CalledPath) = ".pairs" => Returned("Pairs")
        /\ LastOf(CalledPath) \notin {".bedpe", ".pairs"} => NotImplemented

\* C12 amended: Arcs returns a BEDPE track for a path ending in .bedpe or
\* .bedpe.bgz, a Pairs track for a path ending in .pairs or .pairs.bgz, and
\* raises NotImplementedError for every other path
C12_ArcsBySuffixOrBgz ==
    result.op = "Arcs" =>
        LET bedpe == \/ LastOf(CalledPath) = ".bedpe"
                     \/ LastTwoOf(CalledPath) = <<".bedpe", ".bgz">>
            pairs == \/ LastOf(CalledPath) = ".pairs"
                     \/ LastTwoOf(CalledPath) = <<".pairs", ".bgz">>
        IN  /\ bedpe => Returned("BEDPE")
            /\ pairs => Returned("Pairs")
            /\ (~bedpe /\ ~pairs) => NotImplemented

C12_Witness ==
    /\ result.op = "Arcs"
    /\ CalledPath = <<"x", ".pairs", ".bgz">>
    /\ Returned("Pairs")

\* the extensions a message names
Named(message) == {message[i] : i \in 1..Len(message)} \cap Extensions

\* the arguments of the last call that are paths HiCMat does not take
BadPaths ==
    {i \in 1..Len(result.other.id) :
        /\ IsStr(result.other.id[i])
        /\ LastOf(result.other.id[i].id) \notin {".hic", ".cool", ".mcool"}}

-----------------------------------------------------------------------------
(* Properties of the constructors, checked under ConfigSpec *)

Constructed == result.op = "new" /\ result.outcome = "ok"
NewClass == tracks[result.value.id].cls
NewKwargs == result.other.id
Stored == Properties(result.value.id)
FeatureKeys == {feature_stack[i].key : i \in 1..Len(feature_stack)}

\* the value given for key k: by a feature of the stack, else by the caller,
\* else by the defaults of the class
Given(k) ==
    IF k \in FeatureKeys
    THEN feature_stack[CHOOSE i \in 1..Len(feature_stack) :
                           /\ feature_stack[i].key = k
                           /\ \A j \in (i + 1)..Len(feature_stack) : feature_stack[j].key # k].value
    ELSE IF k \in DOMAIN NewKwargs THEN NewKwargs[k]
    ELSE ClassProperties(NewClass, <<>>)[k]

\* C13: in the properties of a constructed track of any class no value is a
\* boolean, and every value that was given as a boolean (by the defaults of the
\* class, by the caller or by a feature of the stack) is 'yes' or 'no'
C13_BooleansNormalized ==
    Constructed =>
        \A k \in DOMAIN Stored :
            /\ Stored[k][1] # "bool"
            /\ (k \in FeatureKeys \cup DOMAIN NewKwargs \cup DOMAIN ClassProperties(NewClass, <<>>)
                /\ Given(k)[1] = "bool") => Stored[k] \in {PyStr("yes"), PyStr("no")}

\* a value after the normalisation of booleans
Normalized(v) == IF v[1] = "bool" THEN (IF v[2] THEN PyStr("yes") ELSE PyStr("no")) ELSE v

\* C15 as stated: for every class and every keyword the caller passes, the
\* stored value is the caller's value after the normalisation of booleans
C15_UserValueStored ==
    Constructed => \A k \in DOMAIN NewKwargs : Stored[k] = Normalized(NewKwargs[k])

\* the keys a constructor writes after it merged the caller's keywords
TypeFromStyle == {"BigWig", "ABCompartment", "BedGraph"}
ColorFromCmap == {"Cool", "DotHiC", "HicCompare", "HiCDiff"}
Rewritten(cls, k) ==
    \/ k = "type" /\ cls \in TypeFromStyle
    \/ k = "color" /\ cls \in ColorFromCmap
    \/ k = "labels" /\ cls = "BED"

\* C15 amended: the stored value of a keyword the caller passes is the
\* caller's value after the normalisation of booleans, except that 'type' of
\* BigWig, ABCompartment and BedGraph is the stored 'style', 'color' of Cool,
\* DotHiC, HicCompare and HiCDiff is the stored 'cmap', 'labels' of BED is
\* 'auto' for 'auto', 'on' for True and 'off' for any other value, and a key
\* set by a feature of the stack holds the value of the feature
C15_UserValueStoredUnlessRewritten ==
    Constructed =>
        /\ \A k \in (DOMAIN NewKwargs) \ FeatureKeys :
               ~Rewritten(NewClass, k) => Stored[k] = Normalized(NewKwargs[k])
        /\ \A k \in FeatureKeys : Stored[k] = Given(k)
        /\ (NewClass \in TypeFromStyle /\ FeatureKeys \cap {"type", "style"} = {}) =>
               Stored["type"] = Stored["style"]
        /\ (NewClass \in ColorFromCmap /\ FeatureKeys \cap {"color", "cmap"} = {}) =>
               Stored["color"] = Stored["cmap"]
        /\ (NewClass = "BED" /\ "labels" \in DOMAIN NewKwargs /\ "labels" \notin FeatureKeys) =>
               Stored["labels"] = IF NewKwargs["labels"] = PyStr("auto") THEN PyStr("auto")
                                  ELSE IF NewKwargs["labels"] = PyBool(TRUE) THEN PyStr("on")
                                  ELSE PyStr("off")

C15_Witness ==
    /\ Constructed
    /\ NewClass = "Cool"
    /\ NewKwargs = [color_bar |-> PyBool(FALSE)]
    /\ Stored["color_bar"] = PyStr("no")
    /\ feature_stack # <<>>

\* the properties of the JointView without its slot k
Without(k) ==
    LET sub == jv[1].sub_frames
    IN  [jv[1] EXCEPT !.sub_frames = [s \in (DOMAIN sub) \ {k} |-> sub[s]]]

PanelNames ==
    LET panels == last.res.fig.panels
    IN  [i \in 1..Len(panels) |-> panels[i].name]

\* C21: with bottom or left populated, plot makes no move and no rotate call
\* on the bottom and left panels; both panels are layers of the figure, after
\* the center and in slot order; the bottom frame adds bottom.height + space
\* to the canvas height, the left frame adds left.height + space to the canvas
\* width and to the x of the center offset
C21_BottomLeftUntransformed ==
    PlotOk =>
        /\ \A k \in {"bottom", "left"} :
               Has(k) => /\ \E i \in 2..Len(PanelNames) : PanelNames[i] = k
                         /\ CallsOn(k) = <<>>
        /\ PanelNames = <<"center">> \o Keys(jv[1].sub_frames)
        /\ Has("bottom") =>
               LET add == RAdd(FrameAt("bottom").height, jv[1].space)
               IN  last.res.figsize[2] = RAdd(get_figsize(Without("bottom"), frames)[2], add)
        /\ Has("left") =>
               LET add == RAdd(FrameAt("left").height, jv[1].space)
               IN  /\ last.res.figsize[1] = RAdd(get_figsize(Without("left"), frames)[1], add)
                   /\ last.res.center_offsets[1] =
                          RAdd(get_center_offsets(Without("left"), frames)[1], add)

C21_Witness == PlotOk /\ Has("bottom") /\ Has("left") /\ Has("top")

-----------------------------------------------------------------------------
(* Properties of plot under failing renderings, checked under RenderSpec *)

Plotted == last.op = "plot"
\* the rendering of a populated peripheral slot raises in the last call
PeripheralFails == Plotted /\ last.failure.at \in DOMAIN jv[1].sub_frames

\* C22: plot renders the peripheral frames in slot order and then the center;
\* when the rendering of a peripheral panel raises, plot raises that very
\* exception, the panels rendered are those up to the failing one, each once,
\* the center is not rendered and no figure is returned
C22_PeripheralFailureAborts ==
    Plotted =>
        LET keys == Keys(jv[1].sub_frames)
        IN  IF PeripheralFails
            THEN /\ last.outcome = last.failure.exc
                 /\ last.res = NoResult
                 /\ \E n \in 1..Len(keys) :
                        /\ keys[n] = last.failure.at
                        /\ last.log = SubSeq(keys, 1, n)
            ELSE /\ last.log = keys \o <<"center">>
                 /\ last.outcome = "ok" => last.res # NoResult

C22_Witness ==
    /\ PeripheralFails
    /\ last.failure.at = "right"
    /\ {"top", "right", "bottom"} \subseteq DOMAIN jv[1].sub_frames

-----------------------------------------------------------------------------
(* Properties of JointViews that share Frames, checked under SharedSpec *)

\* the Frame in slot k of the i-th JointView
FrameOf(i, k) == frames[jv[i].sub_frames[k]]

\* C23 as stated: after any constructions and plot calls, every peripheral
\* frame of every JointView has width * width_ratios[1] equal to the
\* center_width of that JointView (lengths are exact here)
C23_EveryViewKeepsItsWidths ==
    \A i \in 1..Len(jv) : \A k \in DOMAIN jv[i].sub_frames :
        RMul(FrameOf(i, k).width, FrameOf(i, k).width_ratios[2]) = jv[i].center_width

-----------------------------------------------------------------------------
(* Properties of the widths in binary64, checked under FloatSpec *)

HeldFrames == {frames[jv[1].sub_frames[k]] : k \in DOMAIN jv[1].sub_frames}

\* C19 as stated: after construction every peripheral Frame has
\* width * width_ratios[1] equal to the center_width in effect
C19_WidthTimesRatio ==
    Built => \A f \in HeldFrames :
                 FMul(f.width, f.width_ratios[2]) = FromInt(jv[1].center_width)

\* width is the double nearest to center_width / ratio:
\* |width * ratio - center_width| <= ratio * (half a unit in the last place of width)
NearestQuotient(width, ratio, center_width) ==
    LET twice == BDouble(BMul(width.m, ratio.m))
        c == BShl(Big(center_width), 1 - width.e - ratio.e)
    IN  ~BLess(ratio.m, BDist(twice, c))

\* a and b differ by at most one unit in the last place of b
WithinOneUlp(a, b) ==
    LET e == IF a.e < b.e THEN a.e ELSE b.e
    IN  ~BLess(BShl(Big(1), b.e - e), BDist(BShl(a.m, a.e - e), BShl(b.m, b.e - e)))

\* C19 amended: after construction every peripheral Frame has as width the
\* double nearest to center_width / width_ratios[1], for the center_width in
\* effect (20 or the keyword), and width * width_ratios[1] computed in doubles
\* is within one unit in the last place of center_width
C19_WidthIsRoundedQuotient ==
    Built => \A f \in HeldFrames :
                 /\ NearestQuotient(f.width, f.width_ratios[2], jv[1].center_width)
                 /\ WithinOneUlp(FMul(f.width, f.width_ratios[2]), FromInt(jv[1].center_width))

C19_Witness ==
    /\ Built
    /\ jv[1].center_width = 15
    /\ \E f \in HeldFrames :
           /\ f.width_ratios[2] = Decimal(90, 100)
           /\ FMul(f.width, f.width_ratios[2]) # FromInt(15)

====
